---- MODULE Spec2Model ----
(***************************************************************************)
(* ScaleUpRateLimiter of cluster-autoscaler/core/scaleup/rate_limiter.go:  *)
(* a limiter that grants at most MaxNumberOfNodesPerMin nodes per whole    *)
(* elapsed minute plus the slots left over by the previous reservation,    *)
(* clamped to BurstMaxNumberOfNodesPerMin.                                 *)
(*                                                                         *)
(* Time is counted in clock ticks, TicksPerMinute of them to the minute    *)
(* (time.Minute in units of the clock's resolution).  The zero time.Time   *)
(* of a freshly built limiter is tick 0 (Epoch); the clock reads any tick  *)
(* at or after it and never runs backwards.  All quantities stay far       *)
(* below the range of Go's int, so the arithmetic is exact.                *)
(***************************************************************************)
EXTENDS Integers, FiniteSets, Sequences, TLC

\* ---------------------------------------------------------------- bounds
TicksPerMinute == 2
MaxMinutes == 2
MaxRate == 2
MaxBurst == 3
MaxCalls == 3
NumCallers == 2

Epoch == 0
MaxClock == MaxMinutes * TicksPerMinute
MaxRequest == MaxBurst + 1
Requests == (0 - 1)..MaxRequest

Min(a, b) == IF a <= b THEN a ELSE b

VARIABLES
  MaxNumberOfNodesPerMin,       \* targeted number of nodes per min
  BurstMaxNumberOfNodesPerMin,  \* burst number of nodes per min
  UnusedNodeSlots,              \* node slots not used in the previous iteration
  LastReserve,                  \* last reserve time
  clock,                        \* what time.Now() reads
  ret,                          \* the last call that returned: arguments, locals, results
  origin,                       \* the fields as the last admitted call (or construction) left them
  obs,                          \* accounts of the calls made since an observed state
  mu,                           \* sync.Mutex: the caller holding it, or Unlocked
  pc,                           \* where each concurrent caller is in AcquireNodes
  loc,                          \* each concurrent caller's argument, locals and results
  shadow,                       \* the fields of a limiter that takes the same calls one at a time
  total                         \* the nodes granted to the concurrent callers so far

vars == <<MaxNumberOfNodesPerMin, BurstMaxNumberOfNodesPerMin, UnusedNodeSlots,
          LastReserve, clock, ret, origin, obs, mu, pc, loc, shadow, total>>

concVars == <<mu, pc, loc, shadow, total>>

config == <<MaxNumberOfNodesPerMin, BurstMaxNumberOfNodesPerMin>>

\* ------------------------------------------------------- the computation
\* time.Time.Sub: the duration t - u, in ticks
Sub(t, u) == t - u

\* (a changed Minutes: the started minute counts as a whole one)
MinutesRoundedUp(d) == (d + TicksPerMinute - 1) \div TicksPerMinute

\* int(d.Minutes()): the duration in minutes, truncated toward zero
Minutes(d) == IF d >= 0 THEN d \div TicksPerMinute ELSE 0 - ((0 - d) \div TicksPerMinute)

\* (a changed Accrued: every minute counts one node, whatever the rate)
AccruedIgnoringRate(now, last, unused) == Minutes(Sub(now, last)) + unused

\* line 47: int(now.Sub(t.LastReserve).Minutes())*t.MaxNumberOfNodesPerMin + t.UnusedNodeSlots
Accrued(now, last, unused) == Minutes(Sub(now, last)) * MaxNumberOfNodesPerMin + unused

\* (a changed Clamp: the burst limit is not applied)
ClampMissing(a) == a

\* lines 48-50: the clamp to the burst limit
Clamp(a) == IF a > BurstMaxNumberOfNodesPerMin THEN BurstMaxNumberOfNodesPerMin ELSE a

\* lines 47-50: the value of allowedNumNodesToAdd when line 52 tests it
allowedNumNodesToAdd(now, last, unused) == Clamp(Accrued(now, last, unused))

\* (a changed NoQuota: a quota of 0 passes the test)
NoQuotaBelowZero(allowed) == allowed < 0

\* line 52: no quota, can not scale up
NoQuota(allowed) == allowed <= 0

\* (a changed ReserveTime: the admitted call does not take the timestamp)
ReserveTimeNever(allowed, now, last) == last

\* (a changed ReserveTime: the rejected call takes the timestamp too)
ReserveTimeAlways(allowed, now, last) == now

\* lines 52-57: LastReserve after the call
ReserveTime(allowed, now, last) == IF NoQuota(allowed) THEN last ELSE now

\* (a changed SlotsAfter: the difference is stored whatever its sign)
SlotsAfterUnchecked(allowed, newNodes, unused) ==
  IF NoQuota(allowed) THEN unused ELSE allowed - newNodes

\* (a changed SlotsAfter: the grant is not taken off the quota)
SlotsAfterKept(allowed, newNodes, unused) ==
  IF NoQuota(allowed) THEN unused ELSE allowed

\* (a changed SlotsAfter: a negative request is taken as a request for 0)
SlotsAfterGuarded(allowed, newNodes, unused) ==
  IF NoQuota(allowed) THEN unused
  ELSE IF newNodes > allowed THEN 0
  ELSE IF newNodes < 0 THEN allowed
  ELSE allowed - newNodes

\* (a changed SlotsAfter: nothing is carried over)
SlotsAfterDropped(allowed, newNodes, unused) ==
  IF NoQuota(allowed) THEN unused ELSE 0

\* lines 52-62: UnusedNodeSlots after the call
SlotsAfter(allowed, newNodes, unused) ==
  IF NoQuota(allowed) THEN unused
  ELSE IF newNodes > allowed THEN 0
  ELSE allowed - newNodes

\* lines 54, 60, 64: the two values returned
Admitted(allowed) == ~NoQuota(allowed)

Granted(allowed, newNodes) ==
  IF NoQuota(allowed) THEN 0
  ELSE IF newNodes > allowed THEN allowed
  ELSE newNodes

\* --------------------------------------------------------------- records
NoCall ==
  [called |-> FALSE, newNodes |-> 0, now |-> Epoch, last |-> Epoch, unused |-> 0,
   allowed |-> 0, ok |-> FALSE, granted |-> 0,
   originLast |-> Epoch, originUnused |-> 0, rejected |-> 0,
   prevOk |-> FALSE, prevStored |-> 0, nonneg |-> TRUE]

Callers == 1..NumCallers
Unlocked == 0

NoLocals ==
  [newNodes |-> 0, now |-> Epoch, allowed |-> 0, ok |-> FALSE, granted |-> 0,
   expOk |-> FALSE, expGranted |-> 0]

Observed(unused, last) ==
  [unused |-> unused, last |-> last, calls |-> 0, admitted |-> 0, sum |-> 0,
   credited |-> 0, lost |-> 0, zeroOnly |-> TRUE, nonneg |-> TRUE,
   unclamped |-> TRUE, first |-> last, at |-> last, ok |-> FALSE]

\* ------------------------------------------------------------------ Init
Init ==
  /\ MaxNumberOfNodesPerMin \in 0..MaxRate
  /\ BurstMaxNumberOfNodesPerMin \in 0..MaxBurst
  /\ UnusedNodeSlots = 0
  /\ LastReserve = Epoch
  /\ clock \in Epoch..MaxClock
  /\ ret = NoCall
  /\ origin = [last |-> Epoch, unused |-> 0, rejected |-> 0]
  /\ obs = Observed(0, Epoch)
  /\ mu = Unlocked
  /\ pc = [c \in Callers |-> "idle"]
  /\ loc = [c \in Callers |-> NoLocals]
  /\ shadow = [last |-> Epoch, unused |-> 0]
  /\ total = 0

\* --------------------------------------------------------------- actions
\* real time passes
Tick ==
  /\ clock < MaxClock
  /\ clock' = clock + 1
  /\ UNCHANGED <<config, UnusedNodeSlots, LastReserve, ret, origin, obs, concVars>>

\* the accounts of the observed calls, after one more call; an observation
\* covers at most MaxCalls calls, the next call starts a new one
Account(newNodes, now, allowed) ==
  LET d == Sub(now, LastReserve)
      ok == Admitted(allowed)
      acc == IF obs.calls < MaxCalls THEN obs
             ELSE Observed(UnusedNodeSlots, LastReserve)
  IN [acc EXCEPT
        !.calls = acc.calls + 1,
        !.admitted = IF ok THEN acc.admitted + 1 ELSE acc.admitted,
        !.first = IF acc.calls = 0 THEN now ELSE acc.first,
        !.at = now,
        !.ok = ok,
        !.sum = acc.sum + Granted(allowed, newNodes),
        !.credited = IF ok THEN acc.credited + (d \div TicksPerMinute) ELSE acc.credited,
        !.lost = IF ok THEN acc.lost + (d % TicksPerMinute) ELSE acc.lost,
        !.zeroOnly = acc.zeroOnly /\ d < TicksPerMinute,
        !.nonneg = acc.nonneg /\ newNodes >= 0,
        !.unclamped = acc.unclamped
                        /\ Accrued(now, LastReserve, UnusedNodeSlots) <= BurstMaxNumberOfNodesPerMin]

\* func (t *ScaleUpRateLimiter) AcquireNodes(newNodes int) (bool, int),
\* the whole call under t.mu: what it does to the fields
Acquire(newNodes) ==
  LET now == clock
      allowed == allowedNumNodesToAdd(now, LastReserve, UnusedNodeSlots)
  IN /\ LastReserve' = ReserveTime(allowed, now, LastReserve)
     /\ UnusedNodeSlots' = SlotsAfter(allowed, newNodes, UnusedNodeSlots)
     /\ UNCHANGED <<config, clock, concVars>>

\* the call with its argument, locals and results put on record
AcquireNodes(newNodes) ==
  LET now == clock
      allowed == allowedNumNodesToAdd(now, LastReserve, UnusedNodeSlots)
  IN /\ Acquire(newNodes)
     /\ ret' = [called |-> TRUE, newNodes |-> newNodes, now |-> now,
                last |-> LastReserve, unused |-> UnusedNodeSlots,
                allowed |-> allowed, ok |-> Admitted(allowed),
                granted |-> Granted(allowed, newNodes),
                originLast |-> origin.last, originUnused |-> origin.unused,
                rejected |-> origin.rejected,
                prevOk |-> ret.ok, prevStored |-> UnusedNodeSlots,
                nonneg |-> ret.nonneg /\ newNodes >= 0]
     /\ origin' = IF Admitted(allowed)
                  THEN [last |-> LastReserve', unused |-> UnusedNodeSlots', rejected |-> 0]
                  ELSE [origin EXCEPT !.rejected = Min(origin.rejected + 1, MaxCalls)]
     /\ UNCHANGED obs

Next ==
  \/ Tick
  \/ \E newNodes \in Requests : AcquireNodes(newNodes)

Spec == Init /\ [][Next]_vars

\* real time keeps advancing (up to the end of the modelled stretch of time)
LiveSpec == Init /\ [][Next]_vars /\ WF_vars(Tick)

\* ------------------------------------------- the calls with their accounts
\* a call, entered in the accounts of the observation
ObservedAcquireNodes(newNodes) ==
  /\ Acquire(newNodes)
  /\ obs' = Account(newNodes, clock,
                    allowedNumNodesToAdd(clock, LastReserve, UnusedNodeSlots))
  /\ UNCHANGED <<ret, origin>>

\* start observing from the current state
Observe ==
  /\ obs # Observed(UnusedNodeSlots, LastReserve)
  /\ obs' = Observed(UnusedNodeSlots, LastReserve)
  /\ UNCHANGED <<config, UnusedNodeSlots, LastReserve, clock, ret, origin, concVars>>

ObsNext ==
  \/ Tick
  \/ \E newNodes \in Requests : ObservedAcquireNodes(newNodes)
  \/ Observe

ObsSpec == Init /\ [][ObsNext]_vars

\* ------------------------------------------------- concurrent callers
\* the requests of the concurrent callers
ConcRequests == {0, 1, MaxRequest}

\* (a changed MutexFree: Lock does not wait for the holder)
MutexFreeAlways(m) == TRUE

\* line 43: t.mu.Lock() returns only when nobody holds the mutex
MutexFree(m) == m = Unlocked

\* (a changed AfterTest: the early return leaves without Unlock)
AfterTestNoUnlock(allowed) == IF NoQuota(allowed) THEN "idle" ELSE "reserve"

\* lines 44, 52-55: where the test of the quota leads: to the return, which
\* runs the deferred Unlock, or on to the writes
AfterTest(allowed) == IF NoQuota(allowed) THEN "unlock" ELSE "reserve"

\* line 42: a caller enters AcquireNodes(newNodes)
Call(c, newNodes) ==
  /\ pc[c] = "idle"
  /\ pc' = [pc EXCEPT ![c] = "lock"]
  /\ loc' = [loc EXCEPT ![c] = [NoLocals EXCEPT !.newNodes = newNodes]]
  /\ UNCHANGED <<config, UnusedNodeSlots, LastReserve, clock, ret, origin, obs,
                 mu, shadow, total>>

\* line 43: t.mu.Lock()
Lock(c) ==
  /\ pc[c] = "lock"
  /\ MutexFree(mu)
  /\ mu' = c
  /\ pc' = [pc EXCEPT ![c] = "compute"]
  /\ UNCHANGED <<config, UnusedNodeSlots, LastReserve, clock, ret, origin, obs,
                 loc, shadow, total>>

\* lines 46-55: now := time.Now(), allowedNumNodesToAdd and its test (the
\* results of a rejected call are set); the limiter that takes the calls one
\* at a time takes this call at this instant
Compute(c) ==
  /\ pc[c] = "compute"
  /\ LET now == clock
         allowed == allowedNumNodesToAdd(now, LastReserve, UnusedNodeSlots)
         expected == allowedNumNodesToAdd(now, shadow.last, shadow.unused)
     IN /\ loc' = [loc EXCEPT ![c].now = now, ![c].allowed = allowed,
                              ![c].expOk = Admitted(expected),
                              ![c].expGranted = Granted(expected, loc[c].newNodes)]
        /\ shadow' = [last |-> ReserveTime(expected, now, shadow.last),
                      unused |-> SlotsAfter(expected, loc[c].newNodes, shadow.unused)]
        /\ pc' = [pc EXCEPT ![c] = AfterTest(allowed)]
  /\ UNCHANGED <<config, UnusedNodeSlots, LastReserve, clock, ret, origin, obs,
                 mu, total>>

\* line 57: t.LastReserve = now
Reserve(c) ==
  /\ pc[c] = "reserve"
  /\ LastReserve' = ReserveTime(loc[c].allowed, loc[c].now, LastReserve)
  /\ pc' = [pc EXCEPT ![c] = "slots"]
  /\ UNCHANGED <<config, UnusedNodeSlots, clock, ret, origin, obs,
                 mu, loc, shadow, total>>

\* lines 58-64: t.UnusedNodeSlots is written and the results are set
Slots(c) ==
  /\ pc[c] = "slots"
  /\ UnusedNodeSlots' = SlotsAfter(loc[c].allowed, loc[c].newNodes, UnusedNodeSlots)
  /\ loc' = [loc EXCEPT ![c].ok = Admitted(loc[c].allowed),
                        ![c].granted = Granted(loc[c].allowed, loc[c].newNodes)]
  /\ pc' = [pc EXCEPT ![c] = "unlock"]
  /\ UNCHANGED <<config, LastReserve, clock, ret, origin, obs, mu, shadow, total>>

\* line 44: the deferred t.mu.Unlock(), and the return to the caller
Unlock(c) ==
  /\ pc[c] = "unlock"
  /\ mu' = Unlocked
  /\ pc' = [pc EXCEPT ![c] = "idle"]
  /\ loc' = [loc EXCEPT ![c] = NoLocals]
  /\ total' = total + loc[c].granted
  /\ UNCHANGED <<config, UnusedNodeSlots, LastReserve, clock, ret, origin, obs,
                 shadow>>

ConcNext ==
  \/ Tick
  \/ \E c \in Callers, newNodes \in ConcRequests : Call(c, newNodes)
  \/ \E c \in Callers : Lock(c)
  \/ \E c \in Callers : Compute(c)
  \/ \E c \in Callers : Reserve(c)
  \/ \E c \in Callers : Slots(c)
  \/ \E c \in Callers : Unlock(c)

ConcSpec == Init /\ [][ConcNext]_vars

\* the requests of the callers under fair scheduling: one within the quota
\* and one beyond the burst ceiling, for both branches of line 58
FairRequests == {1, MaxRequest}

FairNext ==
  \/ Tick
  \/ \E c \in Callers, newNodes \in FairRequests : Call(c, newNodes)
  \/ \E c \in Callers : Lock(c)
  \/ \E c \in Callers : Compute(c)
  \/ \E c \in Callers : Reserve(c)
  \/ \E c \in Callers : Slots(c)
  \/ \E c \in Callers : Unlock(c)

\* the limiters under fair scheduling: with no rate or the largest, with no
\* burst ceiling or the largest
FairInit ==
  /\ Init
  /\ MaxNumberOfNodesPerMin \in {0, MaxRate}
  /\ BurstMaxNumberOfNodesPerMin \in {0, MaxBurst}

\* a step of a caller between Lock and Unlock
HolderStep ==
  \E c \in Callers : Compute(c) \/ Reserve(c) \/ Slots(c) \/ Unlock(c)

\* fair scheduling: a caller that is between Lock and Unlock takes its next
\* step, and a caller waiting in Lock gets the mutex when it is free again
\* and again (sync.Mutex hands the mutex to a waiter that has waited long)
FairConcSpec ==
  /\ FairInit /\ [][FairNext]_vars
  /\ WF_vars(HolderStep)
  /\ \A c \in Callers : SF_vars(Lock(c))

\* ------------------------------------------------------------ type check
TypeOK ==
  /\ MaxNumberOfNodesPerMin \in 0..MaxRate
  /\ BurstMaxNumberOfNodesPerMin \in 0..MaxBurst
  /\ UnusedNodeSlots \in Int
  /\ LastReserve \in Epoch..MaxClock
  /\ clock \in Epoch..MaxClock
  /\ LastReserve <= clock

\* ------------------------------------------------- what the claims speak of
\* the whole minutes in a duration of d ticks, d >= 0
WholeMinutes(d) == CHOOSE k \in 0..MaxClock : k * TicksPerMinute <= d /\ d < (k + 1) * TicksPerMinute

\* the quota of a call made at time now on the fields last and unused
Quota(now, last, unused) ==
  Min(WholeMinutes(now - last) * MaxNumberOfNodesPerMin + unused, BurstMaxNumberOfNodesPerMin)

\* the whole minutes the last call saw since LastReserve, and its quota
RetMinutes == WholeMinutes(ret.now - ret.last)
RetQuota == Quota(ret.now, ret.last, ret.unused)

\* C1: every call with newNodes >= 0 is granted at most newNodes and at most
\* the burst limit
C1_GrantWithinRequestAndBurst ==
  (ret.called /\ ret.newNodes >= 0) =>
     /\ ret.granted <= ret.newNodes
     /\ ret.granted <= BurstMaxNumberOfNodesPerMin

\* a call asking for more than the burst limit, on an accrual above it, was
\* granted the burst limit
C1_Witness ==
  /\ ret.called /\ ret.ok
  /\ ret.newNodes > BurstMaxNumberOfNodesPerMin
  /\ RetMinutes * MaxNumberOfNodesPerMin + ret.unused > BurstMaxNumberOfNodesPerMin
  /\ ret.granted = BurstMaxNumberOfNodesPerMin

C4_RejectedCallIsNoOp ==
  ret.called =>
     /\ ~ret.ok => (LastReserve = ret.last /\ UnusedNodeSlots = ret.unused)
     /\ ret.ok => ret.granted = Min(ret.newNodes, Quota(ret.now, ret.originLast, ret.originUnused))
     /\ ret.ok = (Quota(ret.now, ret.originLast, ret.originUnused) > 0)

\* a call admitted after two rejected ones, a whole minute or more after an
\* earlier reservation
C4_Witness ==
  /\ ret.called /\ ret.ok
  /\ ret.rejected >= 2
  /\ ret.originLast > Epoch
  /\ ret.granted >= 1
  /\ ret.granted = Min(ret.newNodes, WholeMinutes(ret.now - ret.originLast) * MaxNumberOfNodesPerMin)

\* C6: on UnusedNodeSlots = 0, a call that asks for at least the quota, k
\* whole minutes after LastReserve, is granted min(k * rate, burst limit)
C6_AccrualWithCeiling ==
  (ret.called /\ ret.unused = 0
     /\ ret.newNodes >= Min(RetMinutes * MaxNumberOfNodesPerMin, BurstMaxNumberOfNodesPerMin)) =>
        /\ ret.granted = Min(RetMinutes * MaxNumberOfNodesPerMin, BurstMaxNumberOfNodesPerMin)
        /\ ret.ok = (ret.granted > 0)

\* rate 2, burst limit 3, two minutes: 4 accrued and 4 asked for, 3 granted
C6_Witness ==
  /\ ret.called /\ ret.ok /\ ret.unused = 0
  /\ MaxNumberOfNodesPerMin = 2 /\ BurstMaxNumberOfNodesPerMin = 3
  /\ RetMinutes = 2
  /\ ret.newNodes = 4
  /\ ret.granted = 3

\* C7: an admitted call asking for more than the quota is granted the quota
\* and stores 0, any other is granted newNodes and stores quota - newNodes;
\* the grant and the stored slots add up to the quota; a following call
\* within the same minute has the stored slots (clamped) as its quota
C7_CarryOver ==
  (ret.called /\ RetQuota > 0) =>
     /\ ret.ok
     /\ ret.newNodes > RetQuota => (ret.granted = RetQuota /\ UnusedNodeSlots = 0)
     /\ ret.newNodes <= RetQuota =>
           (ret.granted = ret.newNodes /\ UnusedNodeSlots = RetQuota - ret.newNodes)
     /\ ret.granted + UnusedNodeSlots = RetQuota
     /\ RetMinutes = 0 =>
           /\ ret.allowed = Min(ret.prevStored, BurstMaxNumberOfNodesPerMin)
           /\ ret.nonneg => ret.allowed = ret.prevStored

\* two slots were left by an admitted call; the call after it, in the same
\* minute, took one of them and left one
C7_Witness ==
  /\ ret.called /\ ret.ok /\ ret.prevOk
  /\ RetMinutes = 0
  /\ ret.prevStored = 2
  /\ ret.newNodes = 1 /\ ret.granted = 1
  /\ UnusedNodeSlots = 1

\* the whole minutes from the LastReserve of the observed state to the last
\* observed call
ObsMinutes == WholeMinutes(obs.at - obs.last)

\* C2: from any state, over calls with newNodes >= 0, the grants add up to
\* at most the UnusedNodeSlots of that state plus the rate times the whole
\* minutes from its LastReserve to the last of the calls
C2_GrantsWithinRatePlusCarry ==
  (obs.calls > 0 /\ obs.nonneg) =>
     obs.sum <= obs.unused + MaxNumberOfNodesPerMin * ObsMinutes

\* several calls, from a state that carried slots, used up exactly the
\* carried slots and the rate of the minutes gone by
C2_Witness ==
  /\ obs.calls >= 2 /\ obs.nonneg
  /\ obs.unused >= 1
  /\ obs.last > Epoch
  /\ ObsMinutes >= 1
  /\ MaxNumberOfNodesPerMin >= 1
  /\ obs.sum = obs.unused + MaxNumberOfNodesPerMin * ObsMinutes

\* C5: two or more successive calls that each see less than a whole minute
\* since LastReserve are granted, together, at most the UnusedNodeSlots held
\* before the first of them, and nothing when that is 0
C5_NoDoubleGrant ==
  (obs.calls >= 2 /\ obs.zeroOnly) =>
     /\ obs.sum <= obs.unused
     /\ obs.unused = 0 => obs.sum = 0

\* two admitted calls within the same minute shared the carried slots
C5_Witness ==
  /\ obs.calls >= 2 /\ obs.zeroOnly
  /\ obs.admitted >= 2
  /\ obs.ok
  /\ obs.unused >= 2
  /\ obs.sum = obs.unused

\* C10 as stated: over the observed calls the whole minutes credited equal
\* the whole minutes of real time since the LastReserve of the observed
\* state (no call of them clamped, the rate positive)
C10_AsStated ==
  (obs.calls > 0 /\ obs.ok /\ obs.unclamped /\ MaxNumberOfNodesPerMin > 0) =>
     obs.credited = ObsMinutes

\* C10: the time from the LastReserve of the observed state to the last call
\* is the whole minutes credited, plus the partial minutes the admitted calls
\* saw and dropped, plus the time since LastReserve that is still to be
\* credited (a rejected call drops nothing); so the minutes credited are at
\* most the whole minutes of real time
C10_CreditedPlusDropped ==
  obs.calls > 0 =>
     /\ obs.credited * TicksPerMinute + obs.lost + (obs.at - LastReserve) = obs.at - obs.last
     /\ obs.ok => LastReserve = obs.at
     /\ obs.credited <= ObsMinutes

\* admitted calls dropped partial minutes that add up to a whole one
C10_Witness ==
  /\ obs.calls >= 2 /\ obs.ok /\ obs.unclamped
  /\ MaxNumberOfNodesPerMin > 0
  /\ obs.lost >= TicksPerMinute
  /\ obs.credited < ObsMinutes

\* the quota a call made now would compute
QuotaNow == Quota(clock, LastReserve, UnusedNodeSlots)

\* a whole minute of the modelled stretch of time is still to come
MinuteAhead == clock + TicksPerMinute <= MaxClock

\* C9 as stated: with a positive rate, from every state a state with a
\* positive quota is eventually reached
C9_AsStated ==
  []((MaxNumberOfNodesPerMin > 0 /\ MinuteAhead) => <>(QuotaNow > 0))

\* C9: with a positive rate and a positive burst limit, from every state a
\* state with a positive quota is eventually reached
C9_NeverWedged ==
  []((MaxNumberOfNodesPerMin > 0 /\ BurstMaxNumberOfNodesPerMin > 0 /\ MinuteAhead)
        => <>(QuotaNow > 0))

\* calls were rejected after a reservation, and time has since brought the
\* quota back
C9_Witness ==
  /\ MaxNumberOfNodesPerMin > 0 /\ BurstMaxNumberOfNodesPerMin > 0
  /\ ret.called /\ ~ret.ok
  /\ origin.rejected >= 2
  /\ LastReserve > Epoch
  /\ UnusedNodeSlots = 0
  /\ QuotaNow > 0

\* a caller is between Lock and Unlock
InCall(c) == pc[c] \in {"compute", "reserve", "slots", "unlock"}

\* a caller is between its first write and its last
Writing(c) == pc[c] \in {"reserve", "slots"}

\* C8: at most one caller is between Lock and Unlock; the fields a caller
\* reads, and the fields when no call is writing, are those of the limiter
\* that took the same calls one at a time in the order of their locks; every
\* call returns what that limiter returned; together the callers are granted
\* no more than the rate allows for the whole minutes gone by
C8_CallsAreAtomic ==
  /\ \A c, d \in Callers : (c # d) => ~(InCall(c) /\ InCall(d))
  /\ \A c \in Callers : InCall(c) => mu = c
  /\ (\A c \in Callers : pc[c] \in {"idle", "lock", "compute", "unlock"}) =>
        (LastReserve = shadow.last /\ UnusedNodeSlots = shadow.unused)
  /\ \A c \in Callers : pc[c] = "compute" => \A d \in Callers : ~Writing(d)
  /\ \A c \in Callers : pc[c] = "unlock" =>
        (loc[c].ok = loc[c].expOk /\ loc[c].granted = loc[c].expGranted)
  /\ total <= MaxNumberOfNodesPerMin * WholeMinutes(clock - Epoch)

\* a caller is about to return its grant while another waits for the mutex,
\* after an earlier call was granted nodes
C8_Witness ==
  \E c, d \in Callers :
     /\ c # d
     /\ pc[c] = "unlock" /\ loc[c].ok /\ loc[c].granted >= 1
     /\ pc[d] = "lock" /\ loc[d].newNodes >= 1
     /\ total >= 1

\* C11: LastReserve never decreases; a call that returns false leaves it as
\* it was, a call that returns true sets it to the call's clock reading, and
\* nothing else changes it
C11_LastReserveMonotonic ==
  [][/\ LastReserve' >= LastReserve
     /\ ret' = ret => LastReserve' = LastReserve
     /\ (ret' # ret /\ ~ret'.ok) => LastReserve' = LastReserve
     /\ (ret' # ret /\ ret'.ok) => LastReserve' = ret'.now]_vars

\* a second admitted call moved LastReserve further on, with rejected calls
\* in between that did not move it
C11_Witness ==
  /\ ret.called /\ ret.ok
  /\ ret.rejected >= 1
  /\ ret.originLast > Epoch
  /\ ret.last = ret.originLast
  /\ LastReserve = ret.now
  /\ LastReserve > ret.last

\* C12: a call that returns false returns 0 with it, and a call returns false
\* exactly when its quota min(minutes * rate + UnusedNodeSlots, burst limit)
\* is 0 or less
C12_RejectedIffNoQuota ==
  ret.called =>
     /\ ~ret.ok => ret.granted = 0
     /\ ret.ok = ~(RetQuota <= 0)

\* a call asking for nodes right after an admitted call that used up the
\* quota was rejected with 0
C12_Witness ==
  /\ ret.called /\ ~ret.ok /\ ret.prevOk
  /\ ret.newNodes >= 1
  /\ ret.granted = 0
  /\ RetQuota = 0
  /\ MaxNumberOfNodesPerMin > 0 /\ BurstMaxNumberOfNodesPerMin > 0

\* C13: with a rate of 0 UnusedNodeSlots stays 0 from construction on and
\* every call returns (false, 0), whatever the time gone by, the request and
\* the burst limit
C13_ZeroRateStarves ==
  MaxNumberOfNodesPerMin = 0 =>
     /\ UnusedNodeSlots = 0
     /\ ret.called => (~ret.ok /\ ret.granted = 0)

\* rate 0 and a positive burst limit: a call asking for nodes two minutes
\* after LastReserve, following another rejected call, was rejected
C13_Witness ==
  /\ MaxNumberOfNodesPerMin = 0 /\ BurstMaxNumberOfNodesPerMin > 0
  /\ ret.called /\ ~ret.ok /\ ret.granted = 0
  /\ ret.rejected >= 1
  /\ ret.newNodes >= 1
  /\ RetMinutes >= 2

\* C15: a call with newNodes < 0 on a positive quota returns (true, newNodes),
\* sets LastReserve to now and stores quota - newNodes, more than the quota
C15_NegativeRequestUnguarded ==
  (ret.called /\ ret.newNodes < 0 /\ RetQuota > 0) =>
     /\ ret.ok
     /\ ret.granted = ret.newNodes
     /\ ret.granted < 0
     /\ LastReserve = ret.now
     /\ UnusedNodeSlots = RetQuota - ret.newNodes
     /\ UnusedNodeSlots > RetQuota

\* a request for -1 nodes on a quota at the burst limit left more slots
\* stored than the burst limit
C15_Witness ==
  /\ ret.called /\ ret.ok
  /\ ret.newNodes = 0 - 1 /\ ret.granted = 0 - 1
  /\ RetQuota = BurstMaxNumberOfNodesPerMin
  /\ UnusedNodeSlots = BurstMaxNumberOfNodesPerMin + 1

\* the last call was the first call on the limiter as constructed
RetFirst ==
  /\ ret.called
  /\ ret.last = Epoch /\ ret.unused = 0
  /\ ret.originLast = Epoch /\ ret.rejected = 0

\* C16: with a positive rate and burst limit, the first call, with
\* newNodes >= 0, made when the minutes since the epoch times the rate reach
\* the burst limit, returns (true, min(newNodes, burst limit)) and stores
\* burst limit - min(newNodes, burst limit)
C16_FreshLimiterAvailable ==
  (RetFirst /\ ret.newNodes >= 0
     /\ MaxNumberOfNodesPerMin > 0 /\ BurstMaxNumberOfNodesPerMin > 0
     /\ WholeMinutes(ret.now - Epoch) * MaxNumberOfNodesPerMin >= BurstMaxNumberOfNodesPerMin) =>
        /\ ret.ok
        /\ ret.granted = Min(ret.newNodes, BurstMaxNumberOfNodesPerMin)
        /\ UnusedNodeSlots = BurstMaxNumberOfNodesPerMin - Min(ret.newNodes, BurstMaxNumberOfNodesPerMin)

\* rate 2, burst limit 3, first call two minutes after the epoch: 1 asked for
\* and granted, 2 stored
C16_Witness ==
  /\ RetFirst /\ ret.ok
  /\ MaxNumberOfNodesPerMin = 2 /\ BurstMaxNumberOfNodesPerMin = 3
  /\ RetMinutes = 2
  /\ ret.newNodes = 1 /\ ret.granted = 1
  /\ UnusedNodeSlots = 2

\* C18: a call with newNodes >= 1 returns true exactly when it grants at
\* least 1 node, and then grants min(newNodes, quota) on a quota of at least
\* 1; a call with newNodes >= 0 never grants a negative number
C18_AdmissionNeverEmpty ==
  ret.called =>
     /\ ret.newNodes >= 1 =>
           /\ ret.ok = (ret.granted >= 1)
           /\ ret.ok => (RetQuota >= 1 /\ ret.granted = Min(ret.newNodes, RetQuota))
     /\ ret.newNodes >= 0 => ret.granted >= 0

\* a call asking for more than the quota was granted the quota, short of
\* the request
C18_Witness ==
  /\ ret.called /\ ret.ok
  /\ ret.newNodes > RetQuota
  /\ RetQuota >= 1
  /\ ret.granted = RetQuota
  /\ ret.unused >= 1 /\ RetMinutes >= 1

\* C17: calls with newNodes >= 0 that all fall within a stretch of time
\* shorter than a minute are granted, together, at most the burst limit
C17_BurstBoundsSubMinuteWindow ==
  (obs.calls > 0 /\ obs.nonneg /\ obs.at - obs.first < TicksPerMinute) =>
     obs.sum <= BurstMaxNumberOfNodesPerMin

\* admitted calls at two instants less than a minute apart were granted the
\* whole burst limit between them
C17_Witness ==
  /\ obs.calls >= 2 /\ obs.admitted >= 2 /\ obs.nonneg
  /\ obs.at > obs.first
  /\ obs.at - obs.first < TicksPerMinute
  /\ obs.ok
  /\ BurstMaxNumberOfNodesPerMin >= 2
  /\ obs.sum = BurstMaxNumberOfNodesPerMin

\* no caller is between Lock and Unlock
NoCallInProgress == \A c \in Callers : ~InCall(c)

\* C14: every caller is always at one of the steps of AcquireNodes (there is
\* no error state), the mutex is free whenever no call is in progress, and
\* under fair scheduling every call that was entered returns
C14_EveryCallReturns ==
  /\ [](\A c \in Callers : pc[c] \in {"idle", "lock", "compute", "reserve", "slots", "unlock"})
  /\ [](NoCallInProgress => mu = Unlocked)
  /\ \A c \in Callers : (pc[c] # "idle") ~> (pc[c] = "idle")

\* a rejected call is about to run the deferred Unlock while another caller
\* waits in Lock
C14_Witness ==
  \E c, d \in Callers :
     /\ c # d
     /\ pc[c] = "unlock" /\ NoQuota(loc[c].allowed) /\ ~loc[c].ok
     /\ loc[c].newNodes >= 1
     /\ mu = c
     /\ pc[d] = "lock"

====
